---- MODULE Spec2Model ----
(***************************************************************************)
(* Model of src/track_canvas_qt.py: the TrackCanvas widget.                *)
(*                                                                         *)
(* Coordinates are exact rationals <<n, d>> (d > 0, lowest terms), points  *)
(* are pairs <<x, y>> of rationals.  An optional value (Python None or a   *)
(* list) is a record [none, v].                                            *)
(***************************************************************************)
EXTENDS Integers, Sequences, FiniteSets

VARIABLES
    sat,                         \* <<width, height>> of sat_image / sat_pixmap
    occ,                         \* binary_map: [w, h, contours]
    parent,                      \* the parent controller's configuration
    scale_x, scale_y,            \* self.scale_x, self.scale_y
    offset_x, offset_y,          \* self.offset_x, self.offset_y
    obstacle_polygons,           \* self.obstacle_polygons
    free_region,                 \* self.free_region
    original_obstacle_polygons,  \* self.original_obstacle_polygons
    original_free_region,        \* self.original_free_region
    control_points,              \* self.control_points
    centerline,                  \* self.centerline
    left_boundary,               \* self.left_boundary
    right_boundary,              \* self.right_boundary
    boundaries_swapped,          \* self.boundaries_swapped
    last_update,                 \* history: arguments of the latest update_drawing
    ev,                          \* history: the latest handler invocation and its inputs
    calls,                       \* calls the latest handler made on the parent
    draws,                       \* what the latest handler drew with its painter
    screen_cp,                   \* control points on screen: <<map point, display point>>
    xf                           \* scratch of the transform round trips (SpecXf only)

vars == <<sat, occ, parent, scale_x, scale_y, offset_x, offset_y,
          obstacle_polygons, free_region, original_obstacle_polygons,
          original_free_region, control_points, centerline, left_boundary,
          right_boundary, boundaries_swapped, last_update, ev, calls, draws,
          screen_cp, xf>>

(***************************************************************************)
(* Bounds.                                                                 *)
(***************************************************************************)
\* the widget is at most MaxWidget x MaxWidget pixels when it is painted
MaxWidget == 2

(***************************************************************************)
(* Exact arithmetic.                                                       *)
(***************************************************************************)
Abs(n) == IF n < 0 THEN -n ELSE n

Max(a, b) == IF a >= b THEN a ELSE b

RECURSIVE GCD(_, _)
GCD(a, b) == IF b = 0 THEN a ELSE GCD(b, a % b)

\* the rational n/d in lowest terms with a positive denominator (d # 0)
Rat(n, d) ==
    LET s == IF d < 0 THEN -1 ELSE 1
        g == GCD(Abs(n), Abs(d))
    IN  <<(s * n) \div g, (s * d) \div g>>

IntR(n) == <<n, 1>>

Zero == IntR(0)

One == IntR(1)

RAdd(a, b) == Rat(a[1] * b[2] + b[1] * a[2], a[2] * b[2])

RSub(a, b) == Rat(a[1] * b[2] - b[1] * a[2], a[2] * b[2])

RMul(a, b) == Rat(a[1] * b[1], a[2] * b[2])

\* a / b for b # 0
RDiv(a, b) == Rat(a[1] * b[2], a[2] * b[1])

RLess(a, b) == a[1] * b[2] < b[1] * a[2]

(***************************************************************************)
(* Optional values.                                                        *)
(***************************************************************************)
None == [none |-> TRUE, v |-> <<>>]

Some(s) == [none |-> FALSE, v |-> s]

\* Python truthiness of a list-or-None followed by len(...) > 1
MoreThanOne(o) == ~o.none /\ Len(o.v) > 1

(***************************************************************************)
(* Coordinate transforms.                                                  *)
(***************************************************************************)
\* a mutant: the offset is not added
transform_point_NoOffset(map_x, map_y, sx, sy, ox, oy) ==
    <<RMul(map_x, sx), RMul(map_y, sy)>>

\* transform_point with the canvas fields it reads as parameters
transform_point(map_x, map_y, sx, sy, ox, oy) ==
    <<RAdd(RMul(map_x, sx), ox), RAdd(RMul(map_y, sy), oy)>>

\* a mutant: multiplies by the scale instead of dividing
inverse_transform_point_Mul(display_x, display_y, sx, sy, ox, oy) ==
    [raised |-> FALSE,
     pt |-> <<RMul(RSub(display_x, ox), sx), RMul(RSub(display_y, oy), sy)>>]

\* inverse_transform_point; a zero scale raises ZeroDivisionError
inverse_transform_point(display_x, display_y, sx, sy, ox, oy) ==
    IF sx = Zero \/ sy = Zero
    THEN [raised |-> TRUE, pt |-> <<Zero, Zero>>]
    ELSE [raised |-> FALSE,
          pt |-> <<RDiv(RSub(display_x, ox), sx), RDiv(RSub(display_y, oy), sy)>>]

transform_polygon(polygon, sx, sy, ox, oy) ==
    [i \in 1..Len(polygon) |->
        transform_point(polygon[i][1], polygon[i][2], sx, sy, ox, oy)]

(***************************************************************************)
(* Inputs of the construction.                                             *)
(***************************************************************************)
\* sizes of the satellite image (positive: the image loaded)
SatSizes == {<<4, 2>>, <<3, 3>>, <<2, 6>>}

\* Occupancy maps, each with the contours cv2.findContours returns for it
\* (CHAIN_APPROX_SIMPLE: an axis-aligned rectangle is its four corners, an
\* isolated pixel is one point, a one-pixel-wide segment is two points).
OccMaps ==
    { [w |-> 4, h |-> 4,
       contours |-> << <<<<1, 1>>>>,
                       <<<<0, 0>>, <<0, 3>>, <<3, 3>>, <<3, 0>>>>,
                       <<<<2, 1>>, <<2, 2>>, <<3, 2>>, <<3, 1>>>> >>],
      [w |-> 2, h |-> 3,
       contours |-> << <<<<1, 0>>, <<1, 2>>>> >>] }

\* the parent's px_per_m, min_boundary_backoff and default_cone_distance
ParentConfigs ==
    { [px_per_m |-> IntR(2), min_boundary_backoff |-> Rat(1, 4),
       default_cone_distance |-> Rat(7, 2)] }

(***************************************************************************)
(* Contour extraction.                                                     *)
(***************************************************************************)
RECURSIVE ShoelaceSum(_, _)
ShoelaceSum(c, i) ==
    IF i > Len(c) THEN 0
    ELSE LET j == IF i = Len(c) THEN 1 ELSE i + 1
         IN  c[i][1] * c[j][2] - c[j][1] * c[i][2] + ShoelaceSum(c, i + 1)

\* twice cv2.contourArea of a contour
contourArea2(c) == Abs(ShoelaceSum(c, 1))

\* max(contours, key=cv2.contourArea): the first contour of maximal area
LargestContour(contours) ==
    LET i == CHOOSE k \in 1..Len(contours) :
                 /\ \A j \in 1..Len(contours) :
                        contourArea2(contours[j]) <= contourArea2(contours[k])
                 /\ \A j \in 1..(k - 1) :
                        contourArea2(contours[j]) < contourArea2(contours[k])
    IN  contours[i]

\* the scaled_pts of a contour: transform_point of each of its points
ScaledPts(pts, sx, sy, ox, oy) ==
    [i \in 1..Len(pts) |->
        transform_point(IntR(pts[i][1]), IntR(pts[i][2]), sx, sy, ox, oy)]

\* a contour of one point squeezes to a one-dimensional array and is skipped
IsPolyContour(c) == Len(c) > 1

RECURSIVE extract_obstacle_polygons(_, _, _, _, _)
extract_obstacle_polygons(contours, sx, sy, ox, oy) ==
    IF contours = <<>> THEN <<>>
    ELSE LET rest == extract_obstacle_polygons(Tail(contours), sx, sy, ox, oy)
         IN  IF IsPolyContour(Head(contours))
             THEN <<ScaledPts(Head(contours), sx, sy, ox, oy)>> \o rest
             ELSE rest

\* the closed ring of the largest contour as a polygon, or None
extract_free_region(contours, sx, sy, ox, oy) ==
    IF contours = <<>> THEN None
    ELSE LET pts    == LargestContour(contours)
             closed == IF pts[1] # pts[Len(pts)] THEN Append(pts, pts[1]) ELSE pts
         IN  IF Len(pts) < 3 THEN None
             ELSE IF contourArea2(closed) = 0 THEN None    \* not poly.is_valid
             ELSE Some(ScaledPts(closed, sx, sy, ox, oy))

\* scale_x and scale_y as calculate_scaling_factors sets them
calculate_scaling_factors(s, o) == <<Rat(s[1], o.w), Rat(s[2], o.h)>>

\* a mutant: the contours are extracted after calculate_scaling_factors
ScaleAtExtraction_Late(s, o) == calculate_scaling_factors(s, o)

\* scale_x and scale_y while __init__ extracts the contours: still 1.0
ScaleAtExtraction(s, o) == <<One, One>>

(***************************************************************************)
(* The drawing elements.                                                   *)
(***************************************************************************)
P(a, b) == <<a, b>>

NoDrawing ==
    [control_points |-> <<>>, centerline |-> None, left_boundary |-> None,
     right_boundary |-> None, boundaries_swapped |-> FALSE]

\* arguments the parent passes to update_drawing
UpdateArgs ==
    { [control_points |-> <<P(IntR(1), IntR(1))>>, centerline |-> None,
       left_boundary |-> None, right_boundary |-> None,
       boundaries_swapped |-> FALSE],
      [control_points |-> <<P(IntR(2), IntR(4))>> \o <<P(Rat(1, 2), IntR(1))>>,
       centerline |-> Some(<<P(IntR(2), IntR(4))>>),
       left_boundary |-> Some(<<P(IntR(1), IntR(3))>> \o <<P(IntR(0), IntR(0))>>),
       right_boundary |-> None, boundaries_swapped |-> FALSE],
      [control_points |-> <<P(IntR(0), IntR(0))>> \o <<P(IntR(4), Rat(4, 3))>>
                              \o <<P(IntR(2), IntR(2))>>,
       centerline |-> Some(<<P(IntR(0), IntR(0))>> \o <<P(IntR(2), IntR(2))>>),
       left_boundary |-> Some(<<P(IntR(0), IntR(1))>> \o <<P(IntR(2), IntR(3))>>),
       right_boundary |-> Some(<<P(IntR(1), IntR(0))>> \o <<P(IntR(3), IntR(2))>>),
       boundaries_swapped |-> TRUE] }

\* a mutant: the two boundary arguments are stored in each other's field
UpdateDrawingFields_Swapped(a) ==
    [a EXCEPT !.left_boundary = a.right_boundary,
              !.right_boundary = a.left_boundary]

\* the five fields update_drawing assigns, from its arguments
UpdateDrawingFields(a) == a

DrawingFields ==
    [control_points |-> control_points, centerline |-> centerline,
     left_boundary |-> left_boundary, right_boundary |-> right_boundary,
     boundaries_swapped |-> boundaries_swapped]

(***************************************************************************)
(* float(text): texts are sequences of characters.  The grammar modelled   *)
(* is [spaces] [sign] digits [. digits] [spaces] and [spaces] [sign]       *)
(* . digits [spaces]; any other text raises ValueError.  (Exponents,       *)
(* underscores, "inf" and "nan" are not among the texts drawn.)            *)
(***************************************************************************)
Digits == {"0", "1", "2", "3", "4", "5", "6", "7", "8", "9"}

DigitVal(c) ==
    CASE c = "0" -> 0 [] c = "1" -> 1 [] c = "2" -> 2 [] c = "3" -> 3
      [] c = "4" -> 4 [] c = "5" -> 5 [] c = "6" -> 6 [] c = "7" -> 7
      [] c = "8" -> 8 [] c = "9" -> 9

RECURSIVE StripLeft(_)
StripLeft(s) == IF s # <<>> /\ Head(s) = " " THEN StripLeft(Tail(s)) ELSE s

RECURSIVE StripRight(_)
StripRight(s) ==
    IF s # <<>> /\ s[Len(s)] = " " THEN StripRight(SubSeq(s, 1, Len(s) - 1)) ELSE s

RECURSIVE DigitsValue(_)
DigitsValue(s) ==
    IF s = <<>> THEN 0 ELSE 10 * DigitsValue(SubSeq(s, 1, Len(s) - 1)) + DigitVal(s[Len(s)])

RECURSIVE Pow10(_)
Pow10(n) == IF n = 0 THEN 1 ELSE 10 * Pow10(n - 1)

\* [ok, val]: ok is FALSE where float() raises ValueError
ParseFloat(text) ==
    LET t     == StripRight(StripLeft(text))
        neg   == t # <<>> /\ t[1] = "-"
        body  == IF t # <<>> /\ t[1] \in {"-", "+"} THEN Tail(t) ELSE t
        dots  == {i \in 1..Len(body) : body[i] = "."}
        digs  == SelectSeq(body, LAMBDA c : c \in Digits)
        nfrac == IF dots = {} THEN 0 ELSE Len(body) - (CHOOSE i \in dots : TRUE)
        good  == /\ \A i \in 1..Len(body) : body[i] \in Digits \cup {"."}
                 /\ Cardinality(dots) <= 1
                 /\ digs # <<>>
    IN  IF ~good THEN [ok |-> FALSE, val |-> Zero]
        ELSE [ok |-> TRUE,
              val |-> Rat((IF neg THEN -1 ELSE 1) * DigitsValue(digs), Pow10(nfrac))]

\* texts of parent.backoff_entry and parent.cone_spacing_entry at a paint
\* (the backoff is not negative: see Buffer)
EntryTexts ==
    { <<<<"0", ".", "5">>, <<" ", "2", ".", "5", "0">>>>,
      <<<<"1">>, <<"a", "b">>>>,
      <<<<>>, <<"-", "4">>>>,
      <<<<"1", ",", "5">>, <<".">>>> }

\* a mutant: an unparsable backoff text falls back to the cone distance
BackoffVal_WrongFallback(text, p) ==
    LET r == ParseFloat(text) IN IF r.ok THEN r.val ELSE p.default_cone_distance

\* backoff_val of paintEvent
BackoffVal(text, p) ==
    LET r == ParseFloat(text) IN IF r.ok THEN r.val ELSE p.min_boundary_backoff

\* cone_spacing of paintEvent
ConeSpacing(text, p) ==
    LET r == ParseFloat(text) IN IF r.ok THEN r.val ELSE p.default_cone_distance

(***************************************************************************)
(* Qt and shapely calls of paintEvent.                                     *)
(***************************************************************************)
\* QSize::scaled(s, Qt::KeepAspectRatio) of a pw x ph size into w x h
QSizeScaled(pw, ph, w, h) ==
    IF pw = 0 \/ ph = 0 THEN <<w, h>>
    ELSE LET rw == (h * pw) \div ph
         IN  IF rw <= w THEN <<rw, h>> ELSE <<w, (w * ph) \div pw>>

\* size of QPixmap::scaled(w, h, Qt.KeepAspectRatio, ...): a null pixmap for
\* a null pixmap or an empty target size, else at least 1 x 1
PixmapScaled(pw, ph, w, h) ==
    IF pw <= 0 \/ ph <= 0 \/ w <= 0 \/ h <= 0 THEN <<0, 0>>
    ELSE LET n == QSizeScaled(pw, ph, w, h)
         IN  <<Max(n[1], 1), Max(n[2], 1)>>

\* exterior coords of polygon.buffer(-d), d >= 0, of an axis-aligned
\* rectangle given as a closed ring: the rectangle inset by d, and <<>>
\* (an empty geometry) when nothing is left of it
Buffer(ring, d) ==
    LET xs == {ring[i][1] : i \in 1..Len(ring)}
        ys == {ring[i][2] : i \in 1..Len(ring)}
        x0 == CHOOSE a \in xs : \A b \in xs : ~RLess(b, a)
        x1 == CHOOSE a \in xs : \A b \in xs : ~RLess(a, b)
        y0 == CHOOSE a \in ys : \A b \in ys : ~RLess(b, a)
        y1 == CHOOSE a \in ys : \A b \in ys : ~RLess(a, b)
        dd == RAdd(d, d)
    IN  IF RLess(dd, RSub(x1, x0)) /\ RLess(dd, RSub(y1, y0))
        THEN << <<RAdd(x0, d), RAdd(y0, d)>>, <<RAdd(x0, d), RSub(y1, d)>>,
                <<RSub(x1, d), RSub(y1, d)>>, <<RSub(x1, d), RAdd(y0, d)>>,
                <<RAdd(x0, d), RAdd(y0, d)>> >>
        ELSE <<>>

(***************************************************************************)
(* paintEvent, piece by piece.                                             *)
(***************************************************************************)
\* a mutant: floor division (the // of Python, or / on Python 2 integers)
PaintScale_FloorDiv(w, h) ==
    LET sp == PixmapScaled(sat[1], sat[2], w, h)
    IN  <<IntR(sp[1] \div occ.w), IntR(sp[2] \div occ.h)>>

\* scale_x, scale_y as paintEvent sets them, the widget being w x h
PaintScale(w, h) ==
    LET sp == PixmapScaled(sat[1], sat[2], w, h)
    IN  <<Rat(sp[1], occ.w), Rat(sp[2], occ.h)>>

BackoffPx(backoff_val, p) == RMul(backoff_val, p.px_per_m)

\* the obstacle polygons drawn
DrawObstacles(sx, sy, ox, oy) ==
    [k \in 1..Len(original_obstacle_polygons) |->
        transform_polygon(original_obstacle_polygons[k], sx, sy, ox, oy)]

\* the dashed backoff outline drawn; <<>> when none is drawn
DrawBackoff(backoff_px, sx, sy, ox, oy) ==
    IF free_region.none THEN <<>>
    ELSE LET coords == Buffer(free_region.v, backoff_px)
         IN  IF Len(coords) >= 4 THEN transform_polygon(coords, sx, sy, ox, oy)
             ELSE <<>>

Brush(i, n) ==
    IF i = 1 /\ n > 2 THEN "red"
    ELSE IF i = n /\ n > 2 THEN "blue"
    ELSE "green"

\* a mutant: the control points are drawn with the scale factors of before
\* this paint
DrawControlPoints_Stale(sx, sy, ox, oy) ==
    [i \in 1..Len(control_points) |->
        [d |-> transform_point(control_points[i][1], control_points[i][2],
                               scale_x, scale_y, ox, oy),
         brush |-> Brush(i, Len(control_points))]]

\* the control point ellipses drawn
DrawControlPoints(sx, sy, ox, oy) ==
    [i \in 1..Len(control_points) |->
        [d |-> transform_point(control_points[i][1], control_points[i][2],
                               sx, sy, ox, oy),
         brush |-> Brush(i, Len(control_points))]]

\* the centerline segments and the two boundary polylines drawn
DrawLines(sx, sy, ox, oy) ==
    (IF MoreThanOne(centerline)
     THEN <<[what |-> "centerline", color |-> "green",
             pts |-> transform_polygon(centerline.v, sx, sy, ox, oy)]>>
     ELSE <<>>)
    \o
    (IF MoreThanOne(left_boundary)
     THEN <<[what |-> "left_boundary",
             color |-> IF ~boundaries_swapped THEN "blue" ELSE "yellow",
             pts |-> transform_polygon(left_boundary.v, sx, sy, ox, oy)]>>
     ELSE <<>>)
    \o
    (IF MoreThanOne(right_boundary)
     THEN <<[what |-> "right_boundary",
             color |-> IF ~boundaries_swapped THEN "yellow" ELSE "blue",
             pts |-> transform_polygon(right_boundary.v, sx, sy, ox, oy)]>>
     ELSE <<>>)

\* the calls of sample_cones(boundary, cone_spacing, px_per_m) and the brush
\* their cones are drawn with (the cones themselves are sample_cones' own)
ConeCalls(cone_spacing) ==
    (IF MoreThanOne(left_boundary)
     THEN <<[boundary |-> left_boundary.v, spacing |-> cone_spacing,
             px_per_m |-> parent.px_per_m,
             brush |-> IF boundaries_swapped THEN "yellow" ELSE "blue"]>>
     ELSE <<>>)
    \o
    (IF MoreThanOne(right_boundary)
     THEN <<[boundary |-> right_boundary.v, spacing |-> cone_spacing,
             px_per_m |-> parent.px_per_m,
             brush |-> IF boundaries_swapped THEN "blue" ELSE "yellow"]>>
     ELSE <<>>)

NoDraws ==
    [painted |-> FALSE, obstacles |-> <<>>, backoff_val |-> Zero,
     backoff_px |-> Zero, outline |-> <<>>, cps |-> <<>>, lines |-> <<>>,
     cone_spacing |-> Zero, cone_calls |-> <<>>]

\* the record of a handler invocation: its inputs, and whether it raised
Event(kind, x, y, w, h, dragging, bt, ct, raised) ==
    [kind |-> kind, x |-> x, y |-> y, w |-> w, h |-> h, dragging |-> dragging,
     backoff_text |-> bt, cone_text |-> ct, raised |-> raised]

NoXf ==
    [op |-> "none", in |-> <<Zero, Zero>>, mid |-> <<Zero, Zero>>,
     raised |-> FALSE, out |-> <<Zero, Zero>>]

canvas_const == <<sat, occ, parent, offset_x, offset_y, obstacle_polygons,
                  free_region, original_obstacle_polygons, original_free_region>>

drawing == <<control_points, centerline, left_boundary, right_boundary,
             boundaries_swapped>>

paintEvent(w, h, bt, ct) ==
    LET sc  == PaintScale(w, h)
        bv  == BackoffVal(bt, parent)
        bpx == BackoffPx(bv, parent)
        cs  == ConeSpacing(ct, parent)
        cp  == DrawControlPoints(sc[1], sc[2], offset_x, offset_y)
    IN  /\ scale_x' = sc[1]
        /\ scale_y' = sc[2]
        /\ draws' = [painted |-> TRUE,
                     obstacles |-> DrawObstacles(sc[1], sc[2], offset_x, offset_y),
                     backoff_val |-> bv,
                     backoff_px |-> bpx,
                     outline |-> DrawBackoff(bpx, sc[1], sc[2], offset_x, offset_y),
                     cps |-> cp,
                     lines |-> DrawLines(sc[1], sc[2], offset_x, offset_y),
                     cone_spacing |-> cs,
                     cone_calls |-> ConeCalls(cs)]
        /\ screen_cp' = [i \in 1..Len(cp) |-> <<control_points[i], cp[i].d>>]
        /\ ev' = Event("paint", 0, 0, w, h, FALSE, bt, ct, FALSE)
        /\ calls' = <<>>
        /\ UNCHANGED <<canvas_const, drawing, last_update, xf>>

(***************************************************************************)
(* update_drawing and the mouse handlers.                                  *)
(***************************************************************************)
update_drawing(a) ==
    LET f == UpdateDrawingFields(a)
    IN  /\ control_points' = f.control_points
        /\ centerline' = f.centerline
        /\ left_boundary' = f.left_boundary
        /\ right_boundary' = f.right_boundary
        /\ boundaries_swapped' = f.boundaries_swapped
        /\ last_update' = a
        /\ ev' = Event("update_drawing", 0, 0, 0, 0, FALSE, <<>>, <<>>, FALSE)
        /\ calls' = <<>>
        /\ draws' = NoDraws
        /\ UNCHANGED <<canvas_const, scale_x, scale_y, screen_cp, xf>>

\* the QPointF(map_x, map_y) of a mouse position, or the exception
MapPos(x, y) ==
    inverse_transform_point(IntR(x), IntR(y), scale_x, scale_y, offset_x, offset_y)

ParentCall(handler, cls, pt) == [handler |-> handler, cls |-> cls, pt |-> pt]

PressCalls(x, y) ==
    IF MapPos(x, y).raised THEN <<>>
    ELSE <<ParentCall("handle_canvas_click", "QPointF", MapPos(x, y).pt)>>

\* a mutant: the drag is forwarded whether or not the parent is dragging
MoveCalls_NoGuard(x, y, dragging) ==
    <<ParentCall("handle_canvas_drag", "QPointF", MapPos(x, y).pt)>>

MoveCalls(x, y, dragging) ==
    IF ~dragging \/ MapPos(x, y).raised THEN <<>>
    ELSE <<ParentCall("handle_canvas_drag", "QPointF", MapPos(x, y).pt)>>

\* event.pos() is handed over as it is, a QPoint of display coordinates
ReleaseCalls(x, y) ==
    <<ParentCall("handle_canvas_release", "QPoint", <<IntR(x), IntR(y)>>)>>

mousePressEvent(x, y) ==
    /\ calls' = PressCalls(x, y)
    /\ ev' = Event("press", x, y, 0, 0, FALSE, <<>>, <<>>, MapPos(x, y).raised)
    /\ draws' = NoDraws
    /\ UNCHANGED <<canvas_const, drawing, scale_x, scale_y, last_update,
                   screen_cp, xf>>

\* dragging is parent.dragging as the handler reads it
mouseMoveEvent(x, y, dragging) ==
    /\ calls' = MoveCalls(x, y, dragging)
    /\ ev' = Event("move", x, y, 0, 0, dragging, <<>>, <<>>,
                   dragging /\ MapPos(x, y).raised)
    /\ draws' = NoDraws
    /\ UNCHANGED <<canvas_const, drawing, scale_x, scale_y, last_update,
                   screen_cp, xf>>

mouseReleaseEvent(x, y) ==
    /\ calls' = ReleaseCalls(x, y)
    /\ ev' = Event("release", x, y, 0, 0, FALSE, <<>>, <<>>, FALSE)
    /\ draws' = NoDraws
    /\ UNCHANGED <<canvas_const, drawing, scale_x, scale_y, last_update,
                   screen_cp, xf>>

(***************************************************************************)
(* Construction and the specification.                                     *)
(***************************************************************************)
\* what __init__ loads and extracts, and its empty drawing, for a satellite
\* image of size s, an occupancy map o and a parent p
ConstructData(s, o, p) ==
    LET es == ScaleAtExtraction(s, o)
    IN  /\ sat = s
        /\ occ = o
        /\ parent = p
        /\ obstacle_polygons =
               extract_obstacle_polygons(o.contours, es[1], es[2], Zero, Zero)
        /\ free_region = extract_free_region(o.contours, es[1], es[2], Zero, Zero)
        /\ original_obstacle_polygons =
               extract_obstacle_polygons(o.contours, es[1], es[2], Zero, Zero)
        /\ original_free_region =
               extract_free_region(o.contours, es[1], es[2], Zero, Zero)
        /\ control_points = NoDrawing.control_points
        /\ centerline = NoDrawing.centerline
        /\ left_boundary = NoDrawing.left_boundary
        /\ right_boundary = NoDrawing.right_boundary
        /\ boundaries_swapped = NoDrawing.boundaries_swapped
        /\ last_update = NoDrawing
        /\ calls = <<>>
        /\ draws = NoDraws
        /\ screen_cp = <<>>
        /\ ev = Event("init", 0, 0, 0, 0, FALSE, <<>>, <<>>, FALSE)

\* the state __init__ leaves
Construct(s, o, p) ==
    LET sf == calculate_scaling_factors(s, o)
    IN  /\ ConstructData(s, o, p)
        /\ offset_x = Zero
        /\ offset_y = Zero
        /\ scale_x = sf[1]
        /\ scale_y = sf[2]
        /\ xf = NoXf

Init == \E s \in SatSizes, o \in OccMaps, p \in ParentConfigs : Construct(s, o, p)

\* width() and height() of the widget at a paint event (Qt sends paint
\* events only to a widget whose rectangle is not empty)
WidgetSizes == (1..MaxWidget) \X (1..MaxWidget)

\* event.pos() of the mouse events: integer display coordinates
MousePositions == {<<0, 0>>, <<1, 1>>, <<2, 1>>, <<1, 3>>}

Next ==
    \/ \E a \in UpdateArgs : update_drawing(a)
    \/ \E sz \in WidgetSizes, t \in EntryTexts :
           paintEvent(sz[1], sz[2], t[1], t[2])
    \/ \E m \in MousePositions : mousePressEvent(m[1], m[2])
    \/ \E m \in MousePositions, dragging \in BOOLEAN :
           mouseMoveEvent(m[1], m[2], dragging)
    \/ \E m \in MousePositions : mouseReleaseEvent(m[1], m[2])

Spec == Init /\ [][Next]_vars

(***************************************************************************)
(* The two transforms as pure functions: a canvas with any scale factors   *)
(* and offsets, and the round trips of a point through both.               *)
(***************************************************************************)
XfScales == {IntR(-2), Zero, Rat(1, 2), Rat(3, 4), IntR(3)}

XfOffsets == {IntR(-1), Zero, Rat(5, 2)}

XfPoints == {<<Zero, Zero>>, <<IntR(1), IntR(-3)>>, <<Rat(2, 3), IntR(5)>>,
             <<Rat(-7, 4), Rat(1, 6)>>}

InitXf ==
    /\ \E s \in SatSizes, o \in OccMaps, p \in ParentConfigs : ConstructData(s, o, p)
    /\ scale_x \in XfScales
    /\ scale_y \in XfScales
    /\ offset_x \in XfOffsets
    /\ offset_y \in XfOffsets
    /\ xf = NoXf

\* inverse_transform_point(*transform_point(x, y))
XfInverseOfTransform(pt) ==
    LET d == transform_point(pt[1], pt[2], scale_x, scale_y, offset_x, offset_y)
        r == inverse_transform_point(d[1], d[2], scale_x, scale_y, offset_x, offset_y)
    IN  /\ xf' = [op |-> "inverse_of_transform", in |-> pt, mid |-> d,
                  raised |-> r.raised, out |-> r.pt]
        /\ UNCHANGED <<canvas_const, drawing, scale_x, scale_y, last_update, ev,
                       calls, draws, screen_cp>>

\* transform_point(*inverse_transform_point(x, y))
XfTransformOfInverse(pt) ==
    LET r == inverse_transform_point(pt[1], pt[2], scale_x, scale_y, offset_x, offset_y)
        d == transform_point(r.pt[1], r.pt[2], scale_x, scale_y, offset_x, offset_y)
    IN  /\ xf' = [op |-> "transform_of_inverse", in |-> pt, mid |-> r.pt,
                  raised |-> r.raised, out |-> IF r.raised THEN r.pt ELSE d]
        /\ UNCHANGED <<canvas_const, drawing, scale_x, scale_y, last_update, ev,
                       calls, draws, screen_cp>>

NextXf ==
    \/ \E pt \in XfPoints : XfInverseOfTransform(pt)
    \/ \E pt \in XfPoints : XfTransformOfInverse(pt)

SpecXf == InitXf /\ [][NextXf]_vars

(***************************************************************************)
(* Properties.                                                             *)
(***************************************************************************)
\* the map-coordinate point of the display position of the latest event
EventMapPoint ==
    <<RDiv(RSub(IntR(ev.x), offset_x), scale_x),
      RDiv(RSub(IntR(ev.y), offset_y), scale_y)>>

\* C1: a mousePressEvent at (dx, dy) makes exactly one call on the parent,
\* handle_canvas_click, with the point ((dx - offset_x) / scale_x,
\* (dy - offset_y) / scale_y) of the scale factors and offsets of that moment.
C1_PressIsOneClick ==
    ev.kind = "press" =>
        calls = <<[handler |-> "handle_canvas_click", cls |-> "QPointF",
                   pt |-> EventMapPoint]>>

C1_Witness ==
    /\ ev.kind = "press"
    /\ ev.x # 0
    /\ ev.y # 0
    /\ scale_x \notin {Zero, One}
    /\ Len(calls) = 1
    /\ calls[1].pt # <<IntR(ev.x), IntR(ev.y)>>

\* C2: the five drawing fields are the arguments of the latest update_drawing,
\* or the initial ([], None, None, None, False) if there was none; paint and
\* mouse handlers leave them as they are.
C2_DrawingIsLastUpdate == DrawingFields = last_update

C2_Witness ==
    /\ ev.kind \in {"paint", "press", "move", "release"}
    /\ last_update # NoDrawing
    /\ ~left_boundary.none
    /\ left_boundary # right_boundary

\* C3: with nonzero scale factors, inverse_transform_point(transform_point(p))
\* = p and transform_point(inverse_transform_point(p)) = p, and
\* transform_point(x, y) = (x * scale_x + offset_x, y * scale_y + offset_y).
C3_MutualInverses ==
    (xf.op # "none" /\ scale_x # Zero /\ scale_y # Zero) =>
        /\ ~xf.raised
        /\ xf.out = xf.in
        /\ xf.op = "inverse_of_transform" =>
               xf.mid = <<RAdd(RMul(xf.in[1], scale_x), offset_x),
                          RAdd(RMul(xf.in[2], scale_y), offset_y)>>

C3_Witness ==
    /\ xf.op = "transform_of_inverse"
    /\ scale_x \notin {Zero, One}
    /\ scale_y \notin {Zero, One}
    /\ offset_x # Zero
    /\ offset_y # Zero
    /\ xf.in[1] # Zero
    /\ xf.mid # xf.in
    /\ xf.out = xf.in

\* C4: a mouseMoveEvent calls handle_canvas_drag, once and with the
\* map-coordinate position, exactly when parent.dragging is true; when it is
\* false the event calls nothing and changes no canvas state.
C4_MoveForwardsIffDragging ==
    [][ev'.kind = "move" =>
          /\ ev'.dragging =>
                 calls' = <<[handler |-> "handle_canvas_drag", cls |-> "QPointF",
                             pt |-> EventMapPoint']>>
          /\ ~ev'.dragging =>
                 /\ calls' = <<>>
                 /\ UNCHANGED <<canvas_const, drawing, scale_x, scale_y>>]_vars

C4_Witness ==
    /\ ev.kind = "move"
    /\ ~ev.dragging
    /\ calls = <<>>
    /\ draws = NoDraws
    /\ scale_x # One

\* what float() makes of each entry text: [ok, val]
TextValue(text) ==
    CASE text = <<"0", ".", "5">> -> [ok |-> TRUE, val |-> Rat(1, 2)]
      [] text = <<"1">> -> [ok |-> TRUE, val |-> IntR(1)]
      [] text = <<>> -> [ok |-> FALSE, val |-> Zero]
      [] text = <<"1", ",", "5">> -> [ok |-> FALSE, val |-> Zero]
      [] text = <<" ", "2", ".", "5", "0">> -> [ok |-> TRUE, val |-> Rat(5, 2)]
      [] text = <<"a", "b">> -> [ok |-> FALSE, val |-> Zero]
      [] text = <<"-", "4">> -> [ok |-> TRUE, val |-> IntR(-4)]
      [] text = <<".">> -> [ok |-> FALSE, val |-> Zero]

\* C5: in every paintEvent the backoff and the cone spacing are the parent's
\* entry texts as numbers, or the parent's min_boundary_backoff and
\* default_cone_distance when the text is no number; an unparsable text does
\* not abort the paint; the backoff in pixels is the backoff * px_per_m.
C5_BackoffAndSpacingFromParent ==
    ev.kind = "paint" =>
        /\ ~ev.raised
        /\ draws.painted
        /\ draws.backoff_val =
               IF TextValue(ev.backoff_text).ok THEN TextValue(ev.backoff_text).val
               ELSE parent.min_boundary_backoff
        /\ draws.cone_spacing =
               IF TextValue(ev.cone_text).ok THEN TextValue(ev.cone_text).val
               ELSE parent.default_cone_distance
        /\ draws.backoff_px = RMul(draws.backoff_val, parent.px_per_m)
        /\ \A i \in 1..Len(draws.cone_calls) :
               /\ draws.cone_calls[i].spacing = draws.cone_spacing
               /\ draws.cone_calls[i].px_per_m = parent.px_per_m

C5_Witness ==
    /\ ev.kind = "paint"
    /\ ev.backoff_text = <<"1", ",", "5">>
    /\ draws.backoff_val = parent.min_boundary_backoff
    /\ draws.backoff_px # draws.backoff_val
    /\ ev.cone_text = <<".">>
    /\ Len(draws.cone_calls) = 2

\* C6: paintEvent sets scale_x and scale_y to the displayed image's size over
\* the occupancy map's size, and a press at the display position where the
\* latest paint drew a control point hands that control point to
\* handle_canvas_click.
C6_PressOnPaintedPointGivesPoint ==
    /\ ev.kind = "paint" =>
           /\ scale_x = Rat(PixmapScaled(sat[1], sat[2], ev.w, ev.h)[1], occ.w)
           /\ scale_y = Rat(PixmapScaled(sat[1], sat[2], ev.w, ev.h)[2], occ.h)
    /\ ev.kind = "press" =>
           \A i \in 1..Len(screen_cp) :
               screen_cp[i][2] = <<IntR(ev.x), IntR(ev.y)>> =>
                   calls = <<[handler |-> "handle_canvas_click", cls |-> "QPointF",
                              pt |-> screen_cp[i][1]]>>

C6_Witness ==
    /\ ev.kind = "press"
    /\ ev.x # 0
    /\ scale_x # One
    /\ \E i \in 1..Len(screen_cp) :
           /\ screen_cp[i][2] = <<IntR(ev.x), IntR(ev.y)>>
           /\ screen_cp[i][1] # screen_cp[i][2]
           /\ calls[1].pt = screen_cp[i][1]

\* the contours of more than one point, in occupancy-map coordinates
RECURSIVE MapPolygons(_)
MapPolygons(contours) ==
    IF contours = <<>> THEN <<>>
    ELSE (IF Len(Head(contours)) > 1
          THEN <<[i \in 1..Len(Head(contours)) |->
                     <<IntR(Head(contours)[i][1]), IntR(Head(contours)[i][2])>>]>>
          ELSE <<>>) \o MapPolygons(Tail(contours))

\* a sequence of map-coordinate points at the display positions of the
\* current scale factors and offsets
AtDisplay(pts) ==
    [i \in 1..Len(pts) |->
        <<RAdd(RMul(pts[i][1], scale_x), offset_x),
          RAdd(RMul(pts[i][2], scale_y), offset_y)>>]

\* the backoff outline in occupancy-map coordinates: the largest contour,
\* closed, moved inwards by the backoff in pixels
MapBackoffOutline ==
    LET c    == LargestContour(occ.contours)
        ring == [i \in 1..(Len(c) + 1) |->
                    LET q == IF i > Len(c) THEN c[1] ELSE c[i]
                    IN  <<IntR(q[1]), IntR(q[2])>>]
    IN  IF Len(c) < 3 THEN <<>> ELSE Buffer(ring, draws.backoff_px)

\* C7: original_obstacle_polygons holds the contours in occupancy-map
\* coordinates and is never modified, and every paintEvent draws each obstacle
\* vertex and each vertex of the backoff outline at (x * scale_x + offset_x,
\* y * scale_y + offset_y) for the scale factors of that paint.
C7_ObstaclesScaledOnce ==
    /\ original_obstacle_polygons = MapPolygons(occ.contours)
    /\ draws.painted =>
           /\ draws.obstacles =
                  [k \in 1..Len(MapPolygons(occ.contours)) |->
                      AtDisplay(MapPolygons(occ.contours)[k])]
           /\ draws.outline = AtDisplay(MapBackoffOutline)

C7_Witness ==
    /\ draws.painted
    /\ Len(draws.obstacles) = 2
    /\ draws.obstacles[1][2] # original_obstacle_polygons[1][2]
    /\ Len(draws.outline) = 5
    /\ draws.backoff_px # Zero
    /\ scale_x # scale_y
    /\ sat[1] # occ.w

\* C8: the points of obstacle_polygons and free_region are the contour points
\* scaled to the satellite image: (x * sat_width / occ_width,
\* y * sat_height / occ_height).
C8_StoredContoursMatchSatellite ==
    LET onSat(pts) ==
            [i \in 1..Len(pts) |->
                <<RMul(pts[i][1], Rat(sat[1], occ.w)),
                  RMul(pts[i][2], Rat(sat[2], occ.h))>>]
        polys == MapPolygons(occ.contours)
    IN  /\ obstacle_polygons = [k \in 1..Len(polys) |-> onSat(polys[k])]
        /\ ~free_region.none =>
               \A i \in 1..Len(LargestContour(occ.contours)) :
                   free_region.v[i] =
                       <<Rat(LargestContour(occ.contours)[i][1] * sat[1], occ.w),
                         Rat(LargestContour(occ.contours)[i][2] * sat[2], occ.h)>>

\* C9: every position a mouse event hands to the parent (click, drag and
\* release) is the inverse transform of the event's display position.
C9_MousePositionsInMapCoordinates ==
    ev.kind \in {"press", "move", "release"} =>
        \A i \in 1..Len(calls) : calls[i].pt = EventMapPoint

\* C10: scale_x and scale_y are strictly positive in every state after
\* construction, whatever paintEvents happened at whatever widget size, so no
\* mouse press or drag divides by zero; offset_x and offset_y stay 0.
C10_ScalePositive ==
    /\ RLess(Zero, scale_x)
    /\ RLess(Zero, scale_y)
    /\ offset_x = Zero
    /\ offset_y = Zero
    /\ ev.kind \in {"press", "move"} => ~ev.raised

C10_Witness ==
    /\ ev.kind = "press"
    /\ ~ev.raised
    /\ Len(calls) = 1
    /\ sat = <<4, 2>>
    /\ scale_x = Rat(1, occ.w)
    /\ scale_y = Rat(1, occ.h)

====
